---- MODULE Spec2Model ----
(***************************************************************************)
(* A model of lovefield's relational runtime (lib/proc/relation.js):       *)
(* Relation, RelationEntry, their set operations and prefix-aware field    *)
(* access, and of the single-row index contract exercised by               *)
(* testing/index/test_single_row_string_key.js.                            *)
(***************************************************************************)
EXTENDS Integers, Sequences, FiniteSets, TLC

VARIABLES
  id_,             \* lf.proc.RelationEntry.id_
  objs,            \* the heap of payload objects (JS objects), by reference
  entryHeap,       \* every RelationEntry constructed so far, in creation order
  relHeap,         \* every Relation constructed so far, in creation order
  emptyRelation_,  \* lf.proc.Relation.emptyRelation_ (NullRef or a reference)
  input,           \* the arguments a caller holds for a single call
  ret,             \* what the last call returned or threw
  index,           \* a single-row index: its [key, value] pairs in key order
  query,           \* the insert builder a caller holds
  globals,         \* heap of lf.Global instances: the services_ map of each
  instance_        \* lf.Global.instance_: a reference into `globals`, or null

vars ==
  <<id_, objs, entryHeap, relHeap, emptyRelation_, input, ret, index, query,
    globals, instance_>>

(* The state of lib/proc/relation.js. *)
relationVars == <<id_, objs, entryHeap, relHeap, emptyRelation_>>

----------------------------------------------------------------------------
(* Bounds of the model. *)

MaxEntries == 2      \* RelationEntry objects constructed in one behaviour
MaxRelations == 2    \* Relation objects constructed in one behaviour
MaxArgs == 2         \* relations handed to one union / intersect call
MaxRows == 2         \* rows handed to one fromRows call
NumIds == 2          \* distinct entries the inputs of one set operation share
MaxLen == 2          \* entries of one input relation of a set operation
MaxJoined == 3       \* entries wrapped or joined in one behaviour
MaxObjs == 4         \* payload objects on the heap
MaxGlobals == 2      \* lf.Global instances ever created

(* The table names and the `tables` arrays callers pass. *)
TableNames == {"T1", "T2"}
TableArgs ==
  {<<>>} \cup {<<t>> : t \in TableNames}
         \cup {<<s, t>> : s \in TableNames, t \in TableNames}
Null == "null"       \* a column without alias
NullRef == 0         \* the null reference (no object)

(* The insert context of a builder nobody has called yet (no target table,
   no rows, allowReplace off). *)
NoRows == [defined |-> FALSE, rows |-> <<>>]
NewQuery == [into |-> "undefined", values |-> NoRows, allowReplace |-> FALSE]

(* JavaScript values held by payload objects: undefined, a number, or a
   reference to another payload object on the heap. *)
Undefined == [t |-> "undefined", v |-> 0]
Num(n) == [t |-> "number", v |-> n]
Ref(r) == [t |-> "object", v |-> r]

(* The schema the callers use: columns (lf.schema.Column) with their table,
   name and optional alias; property keys of payload objects. *)
ColumnNames == {"a"}
Aliases == {"x"}
Columns ==
  [table : TableNames, name : ColumnNames, alias : {Null} \cup Aliases]
PropKeys == ColumnNames \cup Aliases \cup TableNames

EmptyObj == [k \in PropKeys |-> Undefined]

(* lf.Row: an id and a payload object; DUMMY_ID marks rows made by joins. *)
DUMMY_ID == -1
Row(id, payload) == [id |-> id, payload |-> payload]

----------------------------------------------------------------------------
(* goog.structs.Set of strings: its values in insertion order, no repeats. *)

SetContains(s, x) == \E i \in 1..Len(s) : s[i] = x

SetAdd(s, x) == IF SetContains(s, x) THEN s ELSE Append(s, x)

RECURSIVE SetAddAll(_, _)
SetAddAll(s, arr) ==
  IF arr = <<>> THEN s ELSE SetAddAll(SetAdd(s, Head(arr)), Tail(arr))

NewSet(arr) == SetAddAll(<<>>, arr)

SetGetCount(s) == Len(s)

SetGetValues(s) == s

SetIsSubsetOf(s, t) ==
  /\ SetGetCount(s) <= SetGetCount(t)
  /\ \A i \in 1..Len(s) : SetContains(t, s[i])

SetEquals(s, t) == SetGetCount(s) = SetGetCount(t) /\ SetIsSubsetOf(s, t)

(* goog.structs.Map: [key, value] pairs in the order the keys were first set. *)

MapContainsKey(m, k) == \E i \in 1..Len(m) : m[i].key = k

MapSet(m, k, v) ==
  IF MapContainsKey(m, k)
  THEN [i \in 1..Len(m) |-> IF m[i].key = k THEN [key |-> k, value |-> v] ELSE m[i]]
  ELSE Append(m, [key |-> k, value |-> v])

MapGetValues(m) == [i \in 1..Len(m) |-> m[i].value]

(* map.get(key, opt_val): the value of the key, or opt_val without one. *)
MapGet(m, k, default) ==
  IF MapContainsKey(m, k)
  THEN m[CHOOSE i \in 1..Len(m) : m[i].key = k].value
  ELSE default

----------------------------------------------------------------------------
(* lf.proc.Relation *)

Relation(entries, tables) == [entries |-> entries, tables_ |-> NewSet(tables)]

isCompatibleCountOnly(lhs, rhs) ==
  SetGetCount(lhs.tables_) = SetGetCount(rhs.tables_)

isCompatible(lhs, rhs) == SetEquals(lhs.tables_, rhs.tables_)

getTables(relation) == SetGetValues(relation.tables_)

isPrefixApplied(relation) == SetGetCount(relation.tables_) > 1

getRowIds(relation) ==
  [i \in 1..Len(relation.entries) |-> relation.entries[i].row.id]

(* The outcome of a call: a returned value or a thrown error. *)
Returned(x) == [thrown |-> FALSE, error |-> "", value |-> x]
Thrown(e) == [thrown |-> TRUE, error |-> e, value |-> Null]

(* goog.asserts.assert(lhs.isCompatible(rhs), ...): FALSE means it throws. *)
assertCompatible_(lhs, rhs) == isCompatible(lhs, rhs)

(* The assertions of one set operation: each relation against relations[0]. *)
allCompatible(relations) ==
  \A i \in 1..Len(relations) : assertCompatible_(relations[1], relations[i])

RECURSIVE allEntriesOf(_)
allEntriesOf(relations) ==
  IF relations = <<>> THEN <<>>
  ELSE Head(relations).entries \o allEntriesOf(Tail(relations))

RECURSIVE entriesToMap(_, _)
entriesToMap(map, entries) ==
  IF entries = <<>> THEN map
  ELSE entriesToMap(MapSet(map, Head(entries).id, Head(entries)), Tail(entries))

relationMapsOf(relations) ==
  [i \in 1..Len(relations) |-> entriesToMap(<<>>, relations[i].entries)]

existsInAllFirstOnly(relationMaps, id) == MapContainsKey(relationMaps[1], id)

existsInAll(relationMaps, id) ==
  \A j \in 1..Len(relationMaps) : MapContainsKey(relationMaps[j], id)

RECURSIVE intersectLoop(_, _, _)
intersectLoop(intersection, allEntries, relationMaps) ==
  IF allEntries = <<>> THEN intersection
  ELSE LET e == Head(allEntries)
       IN  intersectLoop(
             IF existsInAll(relationMaps, e.id)
             THEN MapSet(intersection, e.id, e) ELSE intersection,
             Tail(allEntries), relationMaps)

(* Relation.intersect on a non-empty list (the empty list goes to createEmpty). *)
intersect(relations) ==
  IF ~allCompatible(relations) THEN Thrown("AssertionError")
  ELSE Returned(Relation(
         MapGetValues(intersectLoop(<<>>, allEntriesOf(relations),
                                    relationMapsOf(relations))),
         SetGetValues(relations[1].tables_)))

RECURSIVE unionLoopNoDedup(_, _)
unionLoopNoDedup(union, relations) ==
  IF relations = <<>> THEN union
  ELSE unionLoopNoDedup(
         union \o [i \in 1..Len(Head(relations).entries) |->
                     [key |-> Head(relations).entries[i].id,
                      value |-> Head(relations).entries[i]]],
         Tail(relations))

unionLoopFirstOnly(union, relations) ==
  IF relations = <<>> THEN union
  ELSE entriesToMap(union, Head(relations).entries)

RECURSIVE unionLoop(_, _)
unionLoop(union, relations) ==
  IF relations = <<>> THEN union
  ELSE unionLoop(entriesToMap(union, Head(relations).entries), Tail(relations))

(* Relation.union on a non-empty list (the empty list goes to createEmpty). *)
union(relations) ==
  IF ~allCompatible(relations) THEN Thrown("AssertionError")
  ELSE Returned(Relation(MapGetValues(unionLoop(<<>>, relations)),
                         SetGetValues(relations[1].tables_)))

----------------------------------------------------------------------------
(* lf.proc.RelationEntry *)

getNextIdNoIncrement(c) == [value |-> c, id_ |-> c]

getNextId_(c) == [value |-> c, id_ |-> c + 1]

RelationEntry(row, flag, c) ==
  LET n == getNextId_(c)
  IN  [entry |-> [row |-> row, id |-> n.value, isPrefixApplied_ |-> flag],
       id_ |-> n.id_]

RECURSIVE mapRows(_, _, _, _)
mapRows(rows, flag, c, acc) ==
  IF rows = <<>> THEN [entries |-> acc, id_ |-> c]
  ELSE LET r == RelationEntry(Head(rows), flag, c)
       IN  mapRows(Tail(rows), flag, r.id_, Append(acc, r.entry))

fromRows(rows, tables, c) ==
  LET flag == Len(tables) > 1
      m == mapRows(rows, flag, c, <<>>)
  IN  [relation |-> Relation(m.entries, tables), id_ |-> m.id_]

(* getField: the value read, or a TypeError when the table's container object
   of a prefixed payload is missing. *)
getField(o, entry, column) ==
  LET payload == o[entry.row.payload]
  IN  IF entry.isPrefixApplied_
      THEN LET container == payload[column.table]
           IN  CASE container.t = "undefined" -> Thrown("TypeError")
                 [] container.t = "object" -> Returned(o[container.v][column.name])
                 [] OTHER -> Returned(Undefined)
      ELSE Returned(payload[column.name])

(* setField: the heap of payload objects after the call. *)
setField(o, entry, column, value) ==
  LET p == entry.row.payload
  IN  IF column.alias # Null
      THEN [o EXCEPT ![p][column.alias] = value]
      ELSE IF entry.isPrefixApplied_
           THEN LET containerObj == o[p][column.table]
                IN  CASE containerObj.t = "undefined" ->
                           Append([o EXCEPT ![p][column.table] = Ref(Len(o) + 1)],
                                  [EmptyObj EXCEPT ![column.name] = value])
                      [] containerObj.t = "object" ->
                           [o EXCEPT ![containerObj.v][column.name] = value]
                      [] OTHER -> o
           ELSE [o EXCEPT ![p][column.name] = value]

(* mergeEntry of combineEntries: `result` after one side has been merged. *)
mergeEntry(o, result, entry, entryTables) ==
  IF entry.isPrefixApplied_
  THEN LET payload == o[entry.row.payload]
       IN  [prefix \in PropKeys |->
              IF payload[prefix] # Undefined THEN payload[prefix] ELSE result[prefix]]
  ELSE [result EXCEPT ![entryTables[1]] = Ref(entry.row.payload)]

combineEntriesRightOnly(o, leftEntry, leftEntryTables, rightEntry, rightEntryTables, c) ==
  LET result == mergeEntry(o, EmptyObj, rightEntry, rightEntryTables)
      row == Row(DUMMY_ID, Len(o) + 1)
      e == RelationEntry(row, TRUE, c)
  IN  [result |-> result, entry |-> e.entry, id_ |-> e.id_]

(* combineEntries: the new payload object, the new entry and the counter. *)
combineEntries(o, leftEntry, leftEntryTables, rightEntry, rightEntryTables, c) ==
  LET result == mergeEntry(o, mergeEntry(o, EmptyObj, leftEntry, leftEntryTables),
                           rightEntry, rightEntryTables)
      row == Row(DUMMY_ID, Len(o) + 1)
      e == RelationEntry(row, TRUE, c)
  IN  [result |-> result, entry |-> e.entry, id_ |-> e.id_]

----------------------------------------------------------------------------
(* The relational runtime as a state machine: callers construct entries and
   relations and run set operations on the relations constructed so far. *)

(* The rows callers hold: two lf.Row objects, each with its own payload. *)
InitObjs ==
  << [EmptyObj EXCEPT !["a"] = Num(1)], [EmptyObj EXCEPT !["a"] = Num(2)] >>
Rows == {Row(1, 1), Row(2, 2)}

(* The inputs of the state machine: one row, and the tables of a one-table
   and of a joined relation. *)
HeapRows == {Row(1, 1)}
HeapTableArgs == {<<"T1">>, <<"T1", "T2">>}
NoInput == [kind |-> "none"]

SeqsUpTo(S, n) == UNION {[1..k -> S] : k \in 0..n}

(* A finished call: its name, the length of its array argument, whether it
   threw, and the reference it returned. *)
Result(op, n, thrown, error, value) ==
  [op |-> op, n |-> n, thrown |-> thrown, error |-> error, value |-> value]

Init ==
  /\ index = <<>>
  /\ query = NewQuery
  /\ globals = <<>>
  /\ instance_ = NullRef
  /\ id_ = 0
  /\ objs = InitObjs
  /\ entryHeap = <<>>
  /\ relHeap = <<>>
  /\ emptyRelation_ = NullRef
  /\ input = NoInput
  /\ ret = Result("none", 0, FALSE, "", NullRef)

(* new lf.proc.RelationEntry(row, isPrefixApplied): what the call does to the
   heap. *)
NewEntryStep(row, flag) ==
  /\ LET e == RelationEntry(row, flag, id_)
     IN  /\ entryHeap' = Append(entryHeap, e.entry)
         /\ id_' = e.id_
         /\ ret' = Result("RelationEntry", 0, FALSE, "", Len(entryHeap) + 1)
  /\ UNCHANGED <<objs, relHeap, emptyRelation_, input, index, query, globals, instance_>>

NewEntry(row, flag) == Len(entryHeap) < MaxEntries /\ NewEntryStep(row, flag)

(* lf.proc.Relation.fromRows(rows, tables): what the call does to the heap. *)
FromRowsStep(rows, tables) ==
  /\ Len(entryHeap) + Len(rows) <= MaxEntries
  /\ Len(relHeap) < MaxRelations
  /\ LET r == fromRows(rows, tables, id_)
     IN  /\ entryHeap' = entryHeap \o r.relation.entries
         /\ relHeap' = Append(relHeap, r.relation)
         /\ id_' = r.id_
         /\ ret' = Result("fromRows", Len(rows), FALSE, "", Len(relHeap) + 1)
  /\ UNCHANGED <<objs, emptyRelation_, index, query, globals, instance_>>

FromRows(rows, tables) == FromRowsStep(rows, tables) /\ UNCHANGED input

(* lf.proc.RelationEntry.combineEntries(left, leftTables, right, rightTables):
   what the call does to the heap (l and r refer to entries of the heap). *)
CombineEntriesStep(l, lt, r, rt) ==
  /\ LET c == combineEntries(objs, entryHeap[l], lt, entryHeap[r], rt, id_)
     IN  /\ objs' = Append(objs, c.result)
         /\ entryHeap' = Append(entryHeap, c.entry)
         /\ id_' = c.id_
         /\ ret' = Result("combineEntries", 0, FALSE, "", Len(entryHeap) + 1)
  /\ UNCHANGED <<relHeap, emptyRelation_, index, query, globals, instance_>>

CombineEntries(l, lt, r, rt) ==
  /\ Len(entryHeap) < MaxEntries
  /\ CombineEntriesStep(l, lt, r, rt)
  /\ UNCHANGED input

createEmptyAlwaysNew(op) ==
  /\ Len(relHeap) < MaxRelations
  /\ relHeap' = Append(relHeap, Relation(<<>>, <<>>))
  /\ emptyRelation_' = Len(relHeap) + 1
  /\ ret' = Result(op, 0, FALSE, "", emptyRelation_')
  /\ UNCHANGED <<id_, objs, entryHeap, input, index, query, globals, instance_>>

(* lf.proc.Relation.createEmpty(), also the empty-list branch of the set
   operations: `op` names the call that returns the instance. *)
createEmpty(op) ==
  /\ emptyRelation_ # NullRef \/ Len(relHeap) < MaxRelations
  /\ IF emptyRelation_ = NullRef
     THEN /\ relHeap' = Append(relHeap, Relation(<<>>, <<>>))
          /\ emptyRelation_' = Len(relHeap) + 1
     ELSE UNCHANGED <<relHeap, emptyRelation_>>
  /\ ret' = Result(op, 0, FALSE, "", emptyRelation_')
  /\ UNCHANGED <<id_, objs, entryHeap, input, index, query, globals, instance_>>

CreateEmpty == createEmpty("createEmpty")

Deref(refs) == [i \in 1..Len(refs) |-> relHeap[refs[i]]]

(* A set operation that ran to its end: it returned a new relation or threw. *)
SetOpDone(op, n, r) ==
  /\ IF r.thrown
     THEN /\ ret' = Result(op, n, TRUE, r.error, NullRef)
          /\ UNCHANGED relHeap
     ELSE /\ Len(relHeap) < MaxRelations
          /\ relHeap' = Append(relHeap, r.value)
          /\ ret' = Result(op, n, FALSE, "", Len(relHeap) + 1)
  /\ UNCHANGED <<id_, objs, entryHeap, emptyRelation_, input, index, query, globals, instance_>>

(* lf.proc.Relation.intersect(relations) *)
Intersect(refs) ==
  IF Len(refs) = 0 THEN createEmpty("intersect")
  ELSE SetOpDone("intersect", Len(refs), intersect(Deref(refs)))

(* lf.proc.Relation.union(relations) *)
Union(refs) ==
  IF Len(refs) = 0 THEN createEmpty("union")
  ELSE SetOpDone("union", Len(refs), union(Deref(refs)))

Next ==
  \/ \E row \in HeapRows, flag \in BOOLEAN : NewEntry(row, flag)
  \/ \E rows \in SeqsUpTo(HeapRows, MaxRows), tables \in HeapTableArgs :
       FromRows(rows, tables)
  \/ \E l \in 1..Len(entryHeap), r \in 1..Len(entryHeap),
        lt \in HeapTableArgs, rt \in HeapTableArgs :
       CombineEntries(l, lt, r, rt)
  \/ CreateEmpty
  \/ \E refs \in SeqsUpTo(1..Len(relHeap), MaxArgs) : Intersect(refs)
  \/ \E refs \in SeqsUpTo(1..Len(relHeap), MaxArgs) : Union(refs)

Spec == Init /\ [][Next]_vars

----------------------------------------------------------------------------
(* Single calls as functions of their arguments. For the set operations a
   caller holds three relations A, B, C, built with `new Relation(entries,
   tables)` from entries constructed before, and calls union or intersect
   once on the first k. *)

Range(f) == {f[i] : i \in DOMAIN f}

(* The entries constructed before the call, one per id. *)
PureEntry(i) == RelationEntry(Row(1, 1), FALSE, i).entry
PureEntries == [i \in 1..NumIds |-> PureEntry(i - 1)]

RelationArgs(entryArrays, tableArgs) ==
  [entries : entryArrays, tables : tableArgs]

(* Inputs that share a table and differ in their entries, and inputs of at
   most one entry whose tables differ. *)
SetOpInputs ==
  [A : RelationArgs(SeqsUpTo(Range(PureEntries), MaxLen), {<<"T1">>}),
   B : RelationArgs(SeqsUpTo(Range(PureEntries), MaxLen), {<<"T1">>}),
   C : RelationArgs(SeqsUpTo(Range(PureEntries), MaxLen), {<<"T1">>})]
  \cup
  [A : RelationArgs({<<>>, <<PureEntry(0)>>}, TableArgs),
   B : RelationArgs({<<>>, <<PureEntry(0)>>}, TableArgs),
   C : RelationArgs({<<>>, <<PureEntry(0)>>}, TableArgs)]

InitSetOp ==
  /\ index = <<>>
  /\ query = NewQuery
  /\ globals = <<>>
  /\ instance_ = NullRef
  /\ id_ = NumIds
  /\ objs = InitObjs
  /\ entryHeap = PureEntries
  /\ relHeap = <<>>
  /\ emptyRelation_ = NullRef
  /\ \E abc \in SetOpInputs : input = [kind |-> "setop", args |-> <<abc.A, abc.B, abc.C>>]
  /\ ret = Result("none", 0, FALSE, "", NullRef)

(* The relations the caller constructs from the first k arguments. *)
Construct(args, k) ==
  [i \in 1..k |-> Relation(args[i].entries, args[i].tables)]

Finished(op, n, r) == Result(op, n, r.thrown, r.error, r.value)

IntersectCall(k) ==
  /\ input.kind = "setop" /\ ret.op = "none"
  /\ ret' = Finished("intersect", k, intersect(Construct(input.args, k)))
  /\ UNCHANGED <<id_, objs, entryHeap, relHeap, emptyRelation_, input, index, query, globals, instance_>>

UnionCall(k) ==
  /\ input.kind = "setop" /\ ret.op = "none"
  /\ ret' = Finished("union", k, union(Construct(input.args, k)))
  /\ UNCHANGED <<id_, objs, entryHeap, relHeap, emptyRelation_, input, index, query, globals, instance_>>

(* A caller that holds rows and the names of their tables, and calls
   fromRows once. *)
InitFromRows ==
  /\ index = <<>>
  /\ query = NewQuery
  /\ globals = <<>>
  /\ instance_ = NullRef
  /\ id_ = 0
  /\ objs = InitObjs
  /\ entryHeap = <<>>
  /\ relHeap = <<>>
  /\ emptyRelation_ = NullRef
  /\ \E rows \in SeqsUpTo(Rows, MaxRows), tables \in TableArgs :
       input = [kind |-> "fromRows", rows |-> rows, tables |-> tables]
  /\ ret = Result("none", 0, FALSE, "", NullRef)

FromRowsCall ==
  /\ input.kind = "fromRows" /\ ret.op = "none"
  /\ FromRows(input.rows, input.tables)

InitSetOps == InitSetOp \/ InitFromRows

NextSetOps ==
  \/ \E k \in 1..3 : IntersectCall(k)
  \/ \E k \in 1..3 : UnionCall(k)
  \/ FromRowsCall

SpecSetOps == InitSetOps /\ [][NextSetOps]_vars

----------------------------------------------------------------------------
(* Entries and their payloads: callers wrap rows into entries, join entries
   and write fields; `input` keeps the arguments of the last join or write. *)

Values == {Num(3)}

(* The tables arrays handed to combineEntries for an entry: a prefixed entry
   comes from a joined relation, any other from one table. *)
SourceTableArgs(entry) ==
  IF entry.isPrefixApplied_ THEN {<<"T1", "T2">>} ELSE {<<t>> : t \in TableNames}

(* A caller wraps a row of one table: its payload is flat. *)
WrapRow(row) == Len(entryHeap) < MaxJoined /\ NewEntryStep(row, FALSE)

CombineEntriesCall(l, lt, r, rt) ==
  /\ Len(entryHeap) < MaxJoined
  /\ Len(objs) < MaxObjs
  /\ CombineEntriesStep(l, lt, r, rt)
  /\ input' = [kind |-> "combineEntries", l |-> l, lt |-> lt, r |-> r, rt |-> rt]

(* entry.setField(column, value), on entry e of the heap *)
SetField(e, column, value) ==
  /\ Len(setField(objs, entryHeap[e], column, value)) <= MaxObjs
  /\ objs' = setField(objs, entryHeap[e], column, value)
  /\ input' = [kind |-> "setField", e |-> e, column |-> column, value |-> value]
  /\ ret' = Result("setField", 0, FALSE, "", NullRef)
  /\ UNCHANGED <<id_, entryHeap, relHeap, emptyRelation_, index, query, globals, instance_>>

NextEntry ==
  \/ \E row \in Rows : WrapRow(row)
  \/ \E l \in 1..Len(entryHeap), r \in 1..Len(entryHeap) :
       \E lt \in SourceTableArgs(entryHeap[l]), rt \in SourceTableArgs(entryHeap[r]) :
         CombineEntriesCall(l, lt, r, rt)
  \/ \E e \in 1..Len(entryHeap), column \in Columns, value \in Values :
       SetField(e, column, value)

SpecEntry == Init /\ [][NextEntry]_vars

(* ------------------------------------------------------------------------
   The single-row string-keyed index that the tests of
   testing/index/test_single_row_string_key.js drive.  The index class is
   not part of the sources; its operations follow the capability contract
   of the specification (add / set / get / getRange / remove / cost /
   containsKey), and the keys and values are the ones the tests build.
   ------------------------------------------------------------------------ *)

(* Keys 'key' + i.toString() are built for -NumKeys <= i < NumKeys. *)
NumKeys == 2

(* A string is the sequence of its UTF-16 code units. *)
RECURSIVE digits(_)
digits(n) == IF n < 10 THEN <<48 + n>> ELSE digits(n \div 10) \o <<48 + (n % 10)>>

(* Number.prototype.toString() of an integer: '-' is code unit 45. *)
toString(i) == IF i < 0 THEN <<45>> \o digits(0 - i) ELSE digits(i)

(* 'key' + i.toString() *)
TestKey(i) == <<107, 101, 121>> \o toString(i)

KeyIds == (0 - NumKeys)..(NumKeys - 1)
TestKeys == {TestKey(i) : i \in KeyIds}

(* The values the tests store under 'key' + i: i itself (add) and 30 + i (set). *)
TestValues(i) == {i, 30 + i}

(* The order of two strings under JavaScript's <: code unit by code unit,
   a proper prefix first. *)
RECURSIVE KeyLess(_, _)
KeyLess(a, b) ==
  IF b = <<>> THEN FALSE
  ELSE IF a = <<>> THEN TRUE
  ELSE IF Head(a) < Head(b) THEN TRUE
  ELSE IF Head(a) > Head(b) THEN FALSE
  ELSE KeyLess(Tail(a), Tail(b))

(* A key range: each bound is a key or unbounded, and is open or closed. *)
Unbound == [unbound |-> TRUE, key |-> <<>>]
Bound(k) == [unbound |-> FALSE, key |-> k]
KeyRange(from, to, excludeLower, excludeUpper) ==
  [from |-> from, to |-> to, excludeLower |-> excludeLower, excludeUpper |-> excludeUpper]

(* lf.index.KeyRange.only(key): [key, key] *)
only(key) == KeyRange(Bound(key), Bound(key), FALSE, FALSE)

(* lf.index.KeyRange.all(): unbounded on both sides *)
all == KeyRange(Unbound, Unbound, FALSE, FALSE)

(* Whether a key lies within a range. *)
rangeContains(range, key) ==
  /\ \/ range.from.unbound
     \/ KeyLess(range.from.key, key)
     \/ (~range.excludeLower /\ range.from.key = key)
  /\ \/ range.to.unbound
     \/ KeyLess(key, range.to.key)
     \/ (~range.excludeUpper /\ range.to.key = key)

(* index.containsKey(key) *)
containsKey(idx, key) == \E i \in 1..Len(idx) : idx[i].key = key

(* The pairs of the index other than the one of the key. *)
withoutKey(idx, key) == SelectSeq(idx, LAMBDA e : e.key # key)

insertAtEnd(idx, key, value) == Append(idx, [key |-> key, value |-> value])

(* The index with the pair [key, value] put at its place in key order. *)
insertInOrder(idx, key, value) ==
  SelectSeq(idx, LAMBDA e : KeyLess(e.key, key))
    \o <<[key |-> key, value |-> value]>>
    \o SelectSeq(idx, LAMBDA e : KeyLess(key, e.key))

(* index.add(key, value): a single-row index is unique, so a second add of a
   key fails with CONSTRAINT and leaves the index as it was. *)
add(idx, key, value) ==
  IF containsKey(idx, key) THEN Thrown("CONSTRAINT")
  ELSE Returned(insertInOrder(idx, key, value))

(* index.set(key, value): replaces any existing association of the key. *)
set(idx, key, value) == insertInOrder(withoutKey(idx, key), key, value)

(* index.get(key): zero or one value. *)
get(idx, key) ==
  LET hit == SelectSeq(idx, LAMBDA e : e.key = key)
  IN  [i \in 1..Len(hit) |-> hit[i].value]

(* A call without a range argument passes undefined. *)
undefinedRange == [undefined |-> TRUE]

(* index.getRange(range): the values of the matching keys, in key order;
   without a range, the values of all keys. *)
getRange(idx, range) ==
  LET hit == IF range = undefinedRange THEN idx
             ELSE SelectSeq(idx, LAMBDA e : rangeContains(range, e.key))
  IN  [i \in 1..Len(hit) |-> hit[i].value]

(* index.cost(range): the number of keys in the range. *)
cost(idx, range) == Len(getRange(idx, range))

removeFirst(idx, key) == IF idx = <<>> THEN idx ELSE Tail(idx)

(* index.remove(key): removes the association of the key, if any. *)
remove(idx, key) == withoutKey(idx, key)

(* A finished call on the index: its name and arguments, whether it threw,
   and what get(key) returned just before it. *)
IndexResult(op, key, value, thrown, error, was) ==
  [op |-> op, key |-> key, arg |-> value, thrown |-> thrown, error |-> error,
   was |-> was]

(* index.add('key' + i, value) *)
Add(i, value) ==
  LET key == TestKey(i)
      r == add(index, key, value)
  IN  /\ index' = IF r.thrown THEN index ELSE r.value
      /\ ret' = IndexResult("add", key, value, r.thrown, r.error, get(index, key))
      /\ UNCHANGED <<relationVars, input, query, globals, instance_>>

(* index.set('key' + i, value) *)
Set(i, value) ==
  LET key == TestKey(i)
  IN  /\ index' = set(index, key, value)
      /\ ret' = IndexResult("set", key, value, FALSE, "", get(index, key))
      /\ UNCHANGED <<relationVars, input, query, globals, instance_>>

(* index.remove('key' + i) *)
Remove(i) ==
  LET key == TestKey(i)
  IN  /\ index' = remove(index, key)
      /\ ret' = IndexResult("remove", key, 0, FALSE, "", get(index, key))
      /\ UNCHANGED <<relationVars, input, query, globals, instance_>>

NextIndex ==
  \/ \E i \in KeyIds : \E value \in TestValues(i) : Add(i, value)
  \/ \E i \in KeyIds : \E value \in TestValues(i) : Set(i, value)
  \/ \E i \in KeyIds : Remove(i)

SpecIndex == Init /\ [][NextIndex]_vars

(* The index populated as populateIndex_ does, value i under 'key' + i, with
   the keys added in any order and removed again. *)
NextPopulate ==
  \/ \E i \in KeyIds : Add(i, i)
  \/ \E i \in KeyIds : Remove(i)

SpecPopulate == Init /\ [][NextPopulate]_vars

(* ------------------------------------------------------------------------
   lf.query.InsertBuilder as the insert tests drive it.  The builder class is
   not part of the sources; into / values / exec follow the specification
   (fluent-call legality at call time, required clauses at exec time), over
   the two tables the tests insert into.
   ------------------------------------------------------------------------ *)

(* db.getSchema().getJob() has a primary key, getJobHistory() has none. *)
BuilderTables == {"Job", "JobHistory"}
hasPrimaryKey(table) == table = "Job"

(* The rows the tests generate: generateSampleJobData,
   generateSampleJobHistoryData. *)
SampleRows == {"job", "jobHistory"}

(* new lf.query.InsertBuilder(opt_allowReplace) *)
InsertBuilder(allowReplace) == [NewQuery EXCEPT !.allowReplace = allowReplace]

(* query.into(table): a second into() fails with SYNTAX at the call. *)
into(q, table) ==
  IF q.into # "undefined" THEN Thrown("SYNTAX")
  ELSE Returned([q EXCEPT !.into = table])

(* query.values(rows): a second values() fails with SYNTAX at the call. *)
values(q, rows) ==
  IF q.values.defined THEN Thrown("SYNTAX")
  ELSE Returned([q EXCEPT !.values = [defined |-> TRUE, rows |-> rows]])

execNoPrimaryKeyCheck(q) ==
  IF q.into = "undefined" \/ ~q.values.defined THEN Thrown("SYNTAX")
  ELSE Returned(q.values.rows)

(* query.exec(): rejects with SYNTAX without into() or values(), with
   CONSTRAINT when allowReplace is set and the table has no primary key;
   otherwise the rows go to the table. *)
exec(q) ==
  IF q.into = "undefined" \/ ~q.values.defined THEN Thrown("SYNTAX")
  ELSE IF q.allowReplace /\ ~hasPrimaryKey(q.into) THEN Thrown("CONSTRAINT")
  ELSE Returned(q.values.rows)

(* A finished call on the builder. *)
BuilderResult(op, r) == [op |-> op, thrown |-> r.thrown, error |-> r.error]

BuilderUnchanged ==
  UNCHANGED <<relationVars, input, index, globals, instance_>>

(* var query = new lf.query.InsertBuilder(allowReplace) *)
NewBuilder(allowReplace) ==
  /\ query' = InsertBuilder(allowReplace)
  /\ ret' = BuilderResult("InsertBuilder", Returned(0))
  /\ BuilderUnchanged

(* query.into(table) *)
Into(table) ==
  LET r == into(query, table)
  IN  /\ query' = IF r.thrown THEN query ELSE r.value
      /\ ret' = BuilderResult("into", r)
      /\ BuilderUnchanged

(* query.values(rows) *)
ValuesCall(rows) ==
  LET r == values(query, rows)
  IN  /\ query' = IF r.thrown THEN query ELSE r.value
      /\ ret' = BuilderResult("values", r)
      /\ BuilderUnchanged

(* query.exec() *)
Exec ==
  /\ ret' = BuilderResult("exec", exec(query))
  /\ UNCHANGED query
  /\ BuilderUnchanged

NextInsert ==
  \/ \E allowReplace \in BOOLEAN : NewBuilder(allowReplace)
  \/ \E table \in BuilderTables : Into(table)
  \/ \E rows \in SeqsUpTo(SampleRows, MaxRows) : ValuesCall(rows)
  \/ Exec

SpecInsert == Init /\ [][NextInsert]_vars

(* ------------------------------------------------------------------------
   lf.Global, the registry of services.  Callers obtain the instance through
   lf.Global.get() and may keep it across a reset, so the instances live on a
   heap and calls go to any instance created so far.
   ------------------------------------------------------------------------ *)

(* lf.service.ServiceId instances and the services registered under them
   (non-null objects, as the signature of registerService requires). *)
ServiceIds == {[serviceId_ |-> "cache"], [serviceId_ |-> "schema"]}
Services == {"s1", "s2"}
NoService == "null"

(* serviceId.toString() *)
serviceIdToString(serviceId) == serviceId.serviceId_

(* new lf.Global() *)
Global == [services_ |-> <<>>]

registerServiceKeepFirst(g, serviceId, service) ==
  IF MapContainsKey(g.services_, serviceIdToString(serviceId)) THEN g
  ELSE [g EXCEPT !.services_ = MapSet(@, serviceIdToString(serviceId), service)]

(* lf.Global.prototype.registerService: the instance after the call. *)
registerService(g, serviceId, service) ==
  [g EXCEPT !.services_ = MapSet(@, serviceIdToString(serviceId), service)]

(* lf.Global.prototype.getService *)
getService(g, serviceId) ==
  LET service == MapGet(g.services_, serviceIdToString(serviceId), NoService)
  IN  IF service = NoService THEN Thrown("NOT_FOUND") ELSE Returned(service)

(* lf.Global.prototype.isRegistered *)
isRegistered(g, serviceId) ==
  MapContainsKey(g.services_, serviceIdToString(serviceId))

(* A finished call on the registry: the instance and id it was about, and
   what it returned or threw. *)
GlobalResult(op, g, serviceId, r) ==
  [op |-> op, g |-> g, id |-> serviceId, thrown |-> r.thrown, error |-> r.error,
   value |-> r.value]

GlobalUnchanged == UNCHANGED <<relationVars, input, index, query>>

(* lf.Global.get() *)
GlobalGet ==
  /\ IF instance_ = NullRef
     THEN /\ Len(globals) < MaxGlobals
          /\ globals' = Append(globals, Global)
          /\ instance_' = Len(globals) + 1
     ELSE UNCHANGED <<globals, instance_>>
  /\ ret' = GlobalResult("get", instance_', [serviceId_ |-> ""], Returned(""))
  /\ GlobalUnchanged

(* lf.Global.reset() *)
GlobalReset ==
  /\ instance_' = NullRef
  /\ ret' = GlobalResult("reset", NullRef, [serviceId_ |-> ""], Returned(""))
  /\ UNCHANGED globals
  /\ GlobalUnchanged

(* g.registerService(serviceId, service), g an instance obtained earlier *)
RegisterService(g, serviceId, service) ==
  /\ globals' = [globals EXCEPT ![g] = registerService(@, serviceId, service)]
  /\ ret' = GlobalResult("registerService", g, serviceId, Returned(service))
  /\ UNCHANGED instance_
  /\ GlobalUnchanged

(* g.getService(serviceId) *)
GetService(g, serviceId) ==
  /\ ret' = GlobalResult("getService", g, serviceId, getService(globals[g], serviceId))
  /\ UNCHANGED <<globals, instance_>>
  /\ GlobalUnchanged

(* g.isRegistered(serviceId) *)
IsRegistered(g, serviceId) ==
  /\ ret' = GlobalResult("isRegistered", g, serviceId,
                         Returned(IF isRegistered(globals[g], serviceId)
                                  THEN "true" ELSE "false"))
  /\ UNCHANGED <<globals, instance_>>
  /\ GlobalUnchanged

NextGlobal ==
  \/ GlobalGet
  \/ GlobalReset
  \/ \E g \in 1..Len(globals), serviceId \in ServiceIds, service \in Services :
       RegisterService(g, serviceId, service)
  \/ \E g \in 1..Len(globals), serviceId \in ServiceIds : GetService(g, serviceId)
  \/ \E g \in 1..Len(globals), serviceId \in ServiceIds : IsRegistered(g, serviceId)

SpecGlobal == Init /\ [][NextGlobal]_vars

----------------------------------------------------------------------------
(* Properties of the state machine. *)

SetOps == {"union", "intersect"}

ZeroInputCall(r) == r.op = "createEmpty" \/ (r.op \in SetOps /\ r.n = 0)

(* C1: createEmpty(), union([]) and intersect([]) all return the one shared
   empty relation: the instance, once made, is never replaced or changed,
   every zero-input call returns it, and it has no entries and no tables. *)
C1_EmptySingleton ==
  [][ /\ emptyRelation_ # NullRef =>
           /\ emptyRelation_' = emptyRelation_
           /\ relHeap'[emptyRelation_] = relHeap[emptyRelation_]
      /\ ZeroInputCall(ret') =>
           /\ ~ret'.thrown
           /\ ret'.value = emptyRelation_'
           /\ ret'.value \in 1..Len(relHeap')
           /\ relHeap'[ret'.value].entries = <<>>
           /\ getTables(relHeap'[ret'.value]) = <<>> ]_vars

(* union([]) returns the instance an earlier call made, after another
   relation has been constructed in between. *)
C1_Witness ==
  /\ ret.op = "union" /\ ret.n = 0
  /\ emptyRelation_ = 1 /\ ret.value = 1
  /\ Len(relHeap) = 2 /\ relHeap[2].entries # <<>>

(* C6: every newly constructed entry gets an id strictly greater than the id
   of every entry constructed before it (whichever way it is constructed),
   and union / intersect construct no entry and allocate no id: the entries
   of their result are entries of their inputs. *)
C6_IdsStrictlyIncreasing ==
  [][ /\ Len(entryHeap') >= Len(entryHeap)
      /\ \A i \in (Len(entryHeap) + 1)..Len(entryHeap') :
           /\ \A j \in 1..(i - 1) : entryHeap'[j].id < entryHeap'[i].id
           /\ entryHeap'[i].id < id_'
      /\ ret'.op \in SetOps =>
           /\ entryHeap' = entryHeap
           /\ id_' = id_
           /\ (~ret'.thrown) =>
                \A k \in 1..Len(relHeap'[ret'.value].entries) :
                  \E j \in 1..Len(entryHeap) :
                    entryHeap[j] = relHeap'[ret'.value].entries[k] ]_vars

(* An entry made by fromRows, then one made by combineEntries, then a union
   over the relation. *)
C6_Witness ==
  /\ Len(entryHeap) = 2
  /\ entryHeap[1].row.id # DUMMY_ID
  /\ entryHeap[2].row.id = DUMMY_ID
  /\ ret.op = "union" /\ ret.n = 1 /\ ~ret.thrown
  /\ relHeap[ret.value].entries = <<entryHeap[1]>>

----------------------------------------------------------------------------
(* Properties of the set operations as functions of their arguments. *)

IdSet(entries) == {entries[i].id : i \in DOMAIN entries}

NoRepeatedId(entries) ==
  \A i, j \in DOMAIN entries : i # j => entries[i].id # entries[j].id

(* The arguments of the call that was made. *)
CallArgs == SubSeq(input.args, 1, ret.n)

(* The source-table sets of all the arguments equal that of the first. *)
CompatibleArgs(args) ==
  \A i \in DOMAIN args : Range(args[i].tables) = Range(args[1].tables)

(* C2: on compatible relations intersect returns a relation whose entry ids
   are exactly the ids present in every input, each id once, also when an
   input holds an id more than once. *)
C2_IntersectIds ==
  (input.kind = "setop" /\ ret.op = "intersect" /\ CompatibleArgs(CallArgs)) =>
    /\ ~ret.thrown
    /\ IdSet(ret.value.entries) =
         {id \in 0..(NumIds - 1) :
            \A i \in DOMAIN CallArgs : id \in IdSet(CallArgs[i].entries)}
    /\ NoRepeatedId(ret.value.entries)

(* intersect of an input that holds entry 0 twice and one that holds entries
   1 and 0 returns entry 0 once. *)
C2_Witness ==
  /\ input.kind = "setop" /\ ret.op = "intersect" /\ ret.n = 2 /\ ~ret.thrown
  /\ input.args[1].entries = <<PureEntry(0), PureEntry(0)>>
  /\ input.args[2].entries = <<PureEntry(1), PureEntry(0)>>
  /\ ret.value.entries = <<PureEntry(0)>>

(* C3: on compatible relations union returns a relation whose entry ids are
   exactly the ids present in some input, each id exactly once. *)
C3_UnionIds ==
  (input.kind = "setop" /\ ret.op = "union" /\ CompatibleArgs(CallArgs)) =>
    /\ ~ret.thrown
    /\ IdSet(ret.value.entries) =
         UNION {IdSet(CallArgs[i].entries) : i \in DOMAIN CallArgs}
    /\ NoRepeatedId(ret.value.entries)

(* union of three inputs that share entries returns each entry once. *)
C3_Witness ==
  /\ input.kind = "setop" /\ ret.op = "union" /\ ret.n = 3 /\ ~ret.thrown
  /\ input.args[1].entries = <<PureEntry(1), PureEntry(1)>>
  /\ input.args[2].entries = <<PureEntry(1), PureEntry(0)>>
  /\ input.args[3].entries = <<PureEntry(0)>>
  /\ ret.value.entries = <<PureEntry(1), PureEntry(0)>>

(* C4: isCompatible holds iff the source-table sets are equal, whatever the
   order or repetition of the names given at construction; a set operation
   throws the compatibility assertion, and returns no relation, iff some
   argument's table set differs from that of the first; when it returns, the
   result's table set is that of the first argument. *)
C4_Compatibility ==
  (input.kind = "setop" /\ ret.op \in SetOps) =>
    /\ \A i, j \in DOMAIN input.args :
         isCompatible(Construct(input.args, 3)[i], Construct(input.args, 3)[j])
           <=> Range(input.args[i].tables) = Range(input.args[j].tables)
    /\ ret.thrown <=> ~CompatibleArgs(CallArgs)
    /\ ret.thrown => ret.error = "AssertionError" /\ ret.value = Null
    /\ (~ret.thrown) =>
         Range(getTables(ret.value)) = Range(input.args[1].tables)

(* The first two arguments name the same tables in another order and the
   third repeats one name: the operation throws at the third. *)
C4_Witness ==
  /\ input.kind = "setop" /\ ret.op = "intersect" /\ ret.n = 3
  /\ input.args[1].tables = <<"T1", "T2">>
  /\ input.args[2].tables = <<"T2", "T1">>
  /\ input.args[3].tables = <<"T1", "T1">>
  /\ ret.thrown

(* C5: on compatible relations A, B, C, compared by the entry ids of the
   result, union and intersect are commutative, associative and idempotent
   (op is the operation the caller ran on <<A, B, C>>, whose result is also
   that of both nestings). *)
C5_SetLaws ==
  (input.kind = "setop" /\ ret.op \in SetOps /\ ret.n = 3
     /\ CompatibleArgs(input.args)) =>
    LET A == Construct(input.args, 3)[1]
        B == Construct(input.args, 3)[2]
        C == Construct(input.args, 3)[3]
        op(x, y) == IF ret.op = "union" THEN union(<<x, y>>).value
                    ELSE intersect(<<x, y>>).value
        Ids(r) == IdSet(r.entries)
    IN  /\ Ids(op(A, B)) = Ids(op(B, A))
        /\ Ids(op(op(A, B), C)) = Ids(op(A, op(B, C)))
        /\ Ids(op(op(A, B), C)) = Ids(ret.value)
        /\ Ids(op(A, A)) = Ids(A)

(* A call on three relations with different entry-id sets, two of which
   overlap. *)
C5_Witness ==
  /\ input.kind = "setop" /\ ret.op = "union" /\ ret.n = 3 /\ ~ret.thrown
  /\ IdSet(input.args[1].entries) = {0}
  /\ IdSet(input.args[2].entries) = {0, 1}
  /\ IdSet(input.args[3].entries) = {1}

----------------------------------------------------------------------------
(* Properties of entries and payloads. *)

(* The keys under which one side of a join appears in the joined payload:
   its single table name, or the keys of its own payload when prefixed. *)
TableKeys(side, sideTables) ==
  IF side.isPrefixApplied_
  THEN {k \in PropKeys : objs[side.row.payload][k] # Undefined}
  ELSE {sideTables[1]}

(* One side of a join is carried by the joined entry e: a prefixed side has
   every key of its payload copied unchanged; any other side has its payload
   under its table name, where every column is read back through getField. *)
Carried(e, side, sideTables) ==
  IF side.isPrefixApplied_
  THEN \A k \in TableKeys(side, sideTables) :
         objs[e.row.payload][k] = objs[side.row.payload][k]
  ELSE /\ objs[e.row.payload][sideTables[1]] = Ref(side.row.payload)
       /\ \A name \in ColumnNames :
            getField(objs, e, [table |-> sideTables[1], name |-> name, alias |-> Null])
              = Returned(objs[side.row.payload][name])

JoinDone == ret.op = "combineEntries" /\ input.kind = "combineEntries"

(* C7 as claimed: combineEntries returns a new prefix-applied entry on a
   DUMMY_ID row whose table-keyed payload carries both sides, for every pair
   of inputs. *)
C7_CombineCarriesBoth ==
  JoinDone =>
    LET e == entryHeap[ret.value]
    IN  /\ ret.value = Len(entryHeap)
        /\ e.isPrefixApplied_
        /\ e.row.id = DUMMY_ID
        /\ Carried(e, entryHeap[input.l], input.lt)
        /\ Carried(e, entryHeap[input.r], input.rt)

(* C7 as amended: the joined entry is new, prefix-applied and on a DUMMY_ID
   row; it always carries the right side, and it carries the left side
   whenever no table key of the left side is a table key of the right side. *)
C7_CombineCarriesDisjoint ==
  JoinDone =>
    LET e == entryHeap[ret.value]
        left == entryHeap[input.l]
        right == entryHeap[input.r]
    IN  /\ ret.value = Len(entryHeap)
        /\ e.isPrefixApplied_
        /\ e.row.id = DUMMY_ID
        /\ Carried(e, right, input.rt)
        /\ (TableKeys(left, input.lt) \cap TableKeys(right, input.rt) = {})
             => Carried(e, left, input.lt)

(* The join of a row of T1 with another row of T2: both values are read back
   under their table names. *)
C7_Witness ==
  /\ JoinDone
  /\ ~entryHeap[input.l].isPrefixApplied_ /\ input.lt = <<"T1">>
  /\ ~entryHeap[input.r].isPrefixApplied_ /\ input.rt = <<"T2">>
  /\ entryHeap[input.l].row # entryHeap[input.r].row
  /\ getField(objs, entryHeap[ret.value], [table |-> "T1", name |-> "a", alias |-> Null])
       = Returned(objs[entryHeap[input.l].row.payload]["a"])
  /\ getField(objs, entryHeap[ret.value], [table |-> "T2", name |-> "a", alias |-> Null])
       = Returned(objs[entryHeap[input.r].row.payload]["a"])

(* C8 as claimed: fromRows builds one fresh entry per row, in row order, and
   the prefixApplied flag of every entry equals the relation's own
   isPrefixApplied(), for every tables argument. *)
C8_FromRowsFlags ==
  (input.kind = "fromRows" /\ ret.op = "fromRows") =>
    LET relation == relHeap[ret.value]
    IN  /\ Len(relation.entries) = Len(input.rows)
        /\ \A i \in 1..Len(input.rows) :
             /\ relation.entries[i].row = input.rows[i]
             /\ relation.entries[i] = entryHeap[i]
             /\ relation.entries[i].isPrefixApplied_ = isPrefixApplied(relation)
        /\ isPrefixApplied(relation) <=> Cardinality(Range(input.tables)) > 1

(* C9 as claimed: on every entry and for every column, with or without an
   alias, getField(column) right after setField(column, v) returns v. *)
C9_SetThenGet ==
  (input.kind = "setField" /\ ret.op = "setField") =>
    getField(objs, entryHeap[input.e], input.column) = Returned(input.value)

(* C10: on the single-row index a successful add(k, v) makes get(k) return
   exactly v and leaves what get returns for every other key as it was, so
   after any sequence of adds on distinct keys every added key returns the
   value added for it; after remove(k) the key is gone from get(k),
   getRange(only(k)) and cost(only(k)), and every other key still returns
   what it returned before. *)
C10_IndexRoundTrip ==
  [][ /\ (ret'.op = "add" /\ ~ret'.thrown) =>
           /\ ret'.was = <<>>
           /\ get(index', ret'.key) = <<ret'.arg>>
           /\ \A k \in TestKeys \ {ret'.key} : get(index', k) = get(index, k)
      /\ ret'.op = "remove" =>
           /\ get(index', ret'.key) = <<>>
           /\ getRange(index', only(ret'.key)) = <<>>
           /\ cost(index', only(ret'.key)) = 0
           /\ ~containsKey(index', ret'.key)
           /\ \A k \in TestKeys \ {ret'.key} : get(index', k) = get(index, k)
    ]_vars

(* 'key-1' has been removed from an index that held it, and the other keys
   that were added still return their values. *)
C10_Witness ==
  /\ ret.op = "remove" /\ ret.key = TestKey(0 - 1) /\ ret.was = <<0 - 1>>
  /\ get(index, TestKey(0 - 1)) = <<>>
  /\ get(index, TestKey(0 - 2)) = <<0 - 2>>
  /\ get(index, TestKey(0)) = <<0>>
  /\ get(index, TestKey(1)) = <<1>>

----------------------------------------------------------------------------
(* Range scans of the ordered index. *)

(* The bounds a range can have, and the ranges built from them. *)
RangeBounds == {Unbound} \cup {Bound(k) : k \in TestKeys}
KeyRanges ==
  {KeyRange(from, to, xl, xu) :
     from \in RangeBounds, to \in RangeBounds, xl \in BOOLEAN, xu \in BOOLEAN}

(* The keys of a set in ascending order. *)
RECURSIVE SortedKeys(_)
SortedKeys(S) ==
  IF S = {} THEN <<>>
  ELSE LET least == CHOOSE k \in S : \A j \in S \ {k} : KeyLess(k, j)
       IN  <<least>> \o SortedKeys(S \ {least})

(* The values of the keys of the index that satisfy a condition, in ascending
   key order, read key by key through get. *)
ValuesInOrder(keys) ==
  LET sorted == SortedKeys({k \in keys : get(index, k) # <<>>})
  IN  [i \in 1..Len(sorted) |-> get(index, sorted[i])[1]]

(* Whether a bound lies at or below another one as a point of the key order
   (an unbounded lower end lies below, an unbounded upper end above). *)
AtOrBelow(lo, hi) ==
  lo.unbound \/ hi.unbound \/ lo.key = hi.key \/ KeyLess(lo.key, hi.key)

(* C11: whatever the order in which the keys were put into the index,
   getRange(range) is the values of exactly the keys matching the range
   (either bound open or closed, either side unbounded), in ascending key
   order; getRange(undefined) and getRange(all()) are the values of all keys;
   and for lo <= mid <= hi the range [lo, mid) followed by [mid, hi] gives
   the range [lo, hi]. *)
C11_GetRangeOrdered ==
  /\ \A range \in KeyRanges :
       getRange(index, range)
         = ValuesInOrder({k \in TestKeys :
              /\ range.from.unbound \/ KeyLess(range.from.key, k)
                   \/ (~range.excludeLower /\ k = range.from.key)
              /\ range.to.unbound \/ KeyLess(k, range.to.key)
                   \/ (~range.excludeUpper /\ k = range.to.key)})
  /\ getRange(index, undefinedRange) = ValuesInOrder(TestKeys)
  /\ getRange(index, all) = ValuesInOrder(TestKeys)
  /\ Len(getRange(index, all)) = Len(index)
  /\ \A lo \in RangeBounds, hi \in RangeBounds, k \in TestKeys :
       (AtOrBelow(lo, Bound(k)) /\ AtOrBelow(Bound(k), hi)) =>
         getRange(index, KeyRange(lo, Bound(k), FALSE, TRUE))
             \o getRange(index, KeyRange(Bound(k), hi, FALSE, FALSE))
           = getRange(index, KeyRange(lo, hi, FALSE, FALSE))

(* 'key-1', the least key, was added last to an index holding the other three
   keys of -2..1; the scans return it first, as the test expects. *)
C11_Witness ==
  /\ ret.op = "add" /\ ~ret.thrown /\ ret.key = TestKey(0 - 1)
  /\ getRange(index, undefinedRange) = <<0 - 1, 0 - 2, 0, 1>>
  /\ getRange(index, KeyRange(Bound(TestKey(0 - 1)), Bound(TestKey(0)), TRUE, FALSE))
       = <<0 - 2, 0>>
  /\ getRange(index, KeyRange(Unbound, Bound(TestKey(0)), FALSE, TRUE)) = <<0 - 1, 0 - 2>>

----------------------------------------------------------------------------
(* The insert builder. *)

(* C12: on one builder, into() fails at the call when into() has already been
   accepted and is accepted otherwise, and likewise values(), so over any
   sequence of calls every second into() or values() fails; a failed call
   leaves the builder as it was; exec() fails, and so does not succeed, when
   into() or values() was never accepted or when allowReplace is set and the
   target table has no primary key. *)
C12_InsertLegality ==
  [][ /\ ret'.op = "into" =>
           IF query.into # "undefined"
           THEN ret'.thrown /\ ret'.error = "SYNTAX" /\ query' = query
           ELSE ~ret'.thrown /\ query'.into \in BuilderTables
      /\ ret'.op = "values" =>
           IF query.values.defined
           THEN ret'.thrown /\ ret'.error = "SYNTAX" /\ query' = query
           ELSE ~ret'.thrown /\ query'.values.defined
      /\ ret'.op = "InsertBuilder" =>
           query'.into = "undefined" /\ ~query'.values.defined
      /\ ret'.op = "exec" =>
           /\ query' = query
           /\ (query.into = "undefined" \/ ~query.values.defined) =>
                ret'.thrown /\ ret'.error = "SYNTAX"
           /\ (query.into # "undefined" /\ query.allowReplace
                 /\ ~hasPrimaryKey(query.into)) => ret'.thrown
           /\ (query.into # "undefined" /\ query.values.defined
                 /\ query.allowReplace /\ ~hasPrimaryKey(query.into)) =>
                ret'.error = "CONSTRAINT"
    ]_vars

(* testExec_ThrowsNoPrimaryKey: a builder with allowReplace holding a row for
   JobHistory has had its exec() rejected. *)
C12_Witness ==
  /\ ret.op = "exec" /\ ret.thrown /\ ret.error = "CONSTRAINT"
  /\ query.allowReplace /\ query.into = "JobHistory"
  /\ query.values = [defined |-> TRUE, rows |-> <<"jobHistory">>]

----------------------------------------------------------------------------
(* The service registry. *)

(* What a lookup of every id in every instance gives. *)
Lookups(gs) ==
  [g \in 1..Len(gs) |-> [serviceId \in ServiceIds |-> getService(gs[g], serviceId)]]

(* C13: registerService(id, s) makes getService(id) on that instance return s
   and changes no other lookup, so a lookup returns the service most recently
   registered under the id in that instance, the current one included;
   getService throws NOT_FOUND iff nothing is registered under the id and
   changes nothing; isRegistered(id) is true exactly when getService(id)
   returns a service; reset() drops the instance, and the first get() after
   it returns a new instance with no service registered, while get() without
   a reset returns the same instance. *)
C13_ServiceLookup ==
  [][ /\ \A g \in 1..Len(globals'), serviceId \in ServiceIds :
           isRegistered(globals'[g], serviceId)
             <=> ~getService(globals'[g], serviceId).thrown
      /\ ret'.op = "registerService" =>
           /\ getService(globals'[ret'.g], ret'.id) = Returned(ret'.value)
           /\ \A g \in 1..Len(globals), serviceId \in ServiceIds :
                (g # ret'.g \/ serviceId # ret'.id) =>
                  Lookups(globals')[g][serviceId] = Lookups(globals)[g][serviceId]
           /\ instance_' = instance_
      /\ ret'.op = "getService" =>
           /\ globals' = globals /\ instance_' = instance_
           /\ ret'.thrown <=> ~isRegistered(globals[ret'.g], ret'.id)
           /\ ret'.thrown => ret'.error = "NOT_FOUND"
           /\ ~ret'.thrown => Returned(ret'.value) = Lookups(globals)[ret'.g][ret'.id]
      /\ ret'.op = "isRegistered" =>
           /\ globals' = globals /\ instance_' = instance_
           /\ (ret'.value = "true") <=> ~getService(globals[ret'.g], ret'.id).thrown
      /\ ret'.op = "reset" => instance_' = NullRef /\ globals' = globals
      /\ ret'.op = "get" =>
           /\ ret'.g = instance_' /\ instance_' # NullRef
           /\ IF instance_ = NullRef
              THEN /\ instance_' = Len(globals) + 1
                   /\ \A serviceId \in ServiceIds :
                        /\ ~isRegistered(globals'[instance_'], serviceId)
                        /\ getService(globals'[instance_'], serviceId) = Thrown("NOT_FOUND")
                   /\ Lookups(globals) = SubSeq(Lookups(globals'), 1, Len(globals))
              ELSE instance_' = instance_ /\ globals' = globals
    ]_vars

(* After a reset the current instance is a second one: a lookup in it of the
   id that the first instance still serves has thrown NOT_FOUND. *)
C13_Witness ==
  /\ Len(globals) = 2 /\ instance_ = 2
  /\ getService(globals[1], [serviceId_ |-> "cache"]) = Returned("s1")
  /\ ret.op = "getService" /\ ret.g = instance_ /\ ret.id = [serviceId_ |-> "cache"]
  /\ ret.thrown /\ ret.error = "NOT_FOUND"
  /\ getService(globals[2], [serviceId_ |-> "schema"]) = Returned("s2")

====
